---- MODULE Spec2Model ----
(***************************************************************************)
(* Model of src/app.py: the geometry pipeline (parse_geometry,             *)
(* transform_point, add_point_marker, add_text, process_csvs) and the      *)
(* Streamlit script around it (session state, download section).           *)
(*                                                                         *)
(* Representation of values                                                *)
(*  - A CSV cell is a string.  float() is the table FloatTable: a string   *)
(*    it does not list is not a number and float() raises ValueError.      *)
(*    Floats are kept as integers in hundredths ("2.0" is 200, 1.6 is 160, *)
(*    34.67 is 3467).                                                      *)
(*  - Drawing coordinates are integers in units of 1e-7 ft, so that        *)
(*    (elev + 34.67 - inst_ht) * 3.28084 is exact: hundredths of a metre   *)
(*    times 328084.  marker_size and txt_size are in the same unit.        *)
(*  - A Geometry cell is [tag, body]: tag is the prefix startswith() sees  *)
(*    ("OTHER": none of the three), body the text between the brackets as  *)
(*    split() sees it: a sequence of comma-separated groups, each a        *)
(*    sequence of whitespace-separated tokens.                             *)
(*  - An exception is [type, line]; NoErr is "no exception".               *)
(***************************************************************************)
EXTENDS Integers, Sequences, FiniteSets, TLC

\* ------------------------------------------------------------- bounds
MaxFiles == 2
MaxRows == 2
MaxRuns == 2

\* ------------------------------------------------- program constants
GeoidOffset == 3467
FeetPerMetre == 328084
DefaultInstHt == 160
DefaultFix == 0
FixedFix == 400

NoErr == [type |-> "", line |-> 0]
Err(t, l) == [type |-> t, line |-> l]

NoPath == [run |-> 0, kind |-> "none"]

\* ------------------------------------------------------------ float()
FloatTable ==
    "1" :> 100 @@ "2" :> 200 @@ "3" :> 300 @@ "4" :> 400 @@ "5" :> 500 @@
    "2.0" :> 200 @@ "-30" :> -3000 @@ "-28" :> -2800

IsFloat(s) == s \in DOMAIN FloatTable

float(s) == FloatTable[s]

AllFloat(tokens) == \A i \in 1..Len(tokens) : IsFloat(tokens[i])

\* ---------------------------------------------------- parse_geometry
\* Line 13-14: the first three whitespace tokens, each through float();
\* coords[i] of a shorter list raises IndexError, a non-number ValueError,
\* whichever comes first in evaluation order.
PointErr(tokens) ==
    IF Len(tokens) >= 1 /\ ~IsFloat(tokens[1]) THEN Err("ValueError", 14)
    ELSE IF Len(tokens) < 1 THEN Err("IndexError", 14)
    ELSE IF Len(tokens) >= 2 /\ ~IsFloat(tokens[2]) THEN Err("ValueError", 14)
    ELSE IF Len(tokens) < 2 THEN Err("IndexError", 14)
    ELSE IF Len(tokens) >= 3 /\ ~IsFloat(tokens[3]) THEN Err("ValueError", 14)
    ELSE IF Len(tokens) < 3 THEN Err("IndexError", 14)
    ELSE NoErr

\* Line 17 and 20: tuple(map(float, group)) for every group, of any length.
GroupsErr(body, line) ==
    IF \A i \in 1..Len(body) : AllFloat(body[i]) THEN NoErr
    ELSE Err("ValueError", line)

Floats(tokens) == [i \in 1..Len(tokens) |-> float(tokens[i])]

parse_geometry(g) ==
    IF g.tag = "POINTZ" THEN
        LET tokens == g.body[1]
            e == PointErr(tokens)
        IN  IF e # NoErr THEN [err |-> e, coords |-> <<>>]
            ELSE [err |-> NoErr,
                  coords |-> <<Floats(SubSeq(tokens, 1, 3))>>]
    ELSE IF g.tag = "LINESTRINGZ" THEN
        LET e == GroupsErr(g.body, 17)
        IN  IF e # NoErr THEN [err |-> e, coords |-> <<>>]
            ELSE [err |-> NoErr,
                  coords |-> [i \in 1..Len(g.body) |-> Floats(g.body[i])]]
    ELSE IF g.tag = "POLYGONZ" THEN
        LET e == GroupsErr(g.body, 20)
        IN  IF e # NoErr THEN [err |-> e, coords |-> <<>>]
            ELSE [err |-> NoErr,
                  coords |-> [i \in 1..Len(g.body) |-> Floats(g.body[i])]]
    ELSE [err |-> NoErr, coords |-> <<>>]

\* --------------------------------------------------- transform_point
\* pyproj's EPSG:4326 -> EPSG:2248 projection is outside the repository;
\* it is stood for by a fixed injective map of (lon, lat).
transform(lon, lat) ==
    <<20000000 + 70000 * lon + 300 * lat, 10000000 + 90000 * lat - 200 * lon>>

transform_point(lon, lat, elev, inst_ht) ==
    LET xy == transform(lon, lat)
        z == (elev + GeoidOffset - inst_ht) * FeetPerMetre
    IN  <<xy[1], xy[2], z>>

\* ------------------------------------------- add_point_marker, add_text
LineEntity(start, end, layer, color) ==
    [type |-> "LINE", start |-> start, end |-> end,
     layer |-> layer, color |-> color]

add_point_marker(msp, x, y, z, size, layer, color) ==
    msp \o <<LineEntity(<<x - size, y - size, z>>, <<x + size, y + size, z>>,
                        layer, color),
             LineEntity(<<x - size, y + size, z>>, <<x + size, y - size, z>>,
                        layer, color)>>

\* Faulty variant: a label of small height is not drawn.
add_text_if_large(msp, text, x, y, z, txt_size, layer, color) ==
    IF txt_size < 2500000 THEN msp
    ELSE Append(msp, [type |-> "TEXT", text |-> text, height |-> txt_size,
                      insert |-> <<x, y, z>>, layer |-> layer, color |-> color])

add_text(msp, text, x, y, z, txt_size, layer, color) ==
    Append(msp, [type |-> "TEXT", text |-> text, height |-> txt_size,
                 insert |-> <<x, y, z>>, layer |-> layer, color |-> color])

\* f"{z:.2f}": z (1e-7 ft) rounded to hundredths of a foot, ties to even.
Fmt2(z) ==
    LET q == z \div 100000
        r == z % 100000
    IN  ToString(IF r > 50000 \/ (r = 50000 /\ q % 2 = 1) THEN q + 1 ELSE q)

\* ------------------------------------------------------ the document
\* ezdxf.new(): a document with its two standard layers and no entity.
new_doc ==
    [layers |-> <<[name |-> <<"0">>, color |-> "WHITE"],
                  [name |-> <<"Defpoints">>, color |-> "WHITE"]>>,
     msp |-> <<>>,
     all_records |-> <<>>,
     err |-> NoErr]

\* `layer in doc.layers`
HasLayer(layers, name) == \E i \in 1..Len(layers) : layers[i].name = name

\* doc.layers.new(name, color): a name already in the table is an error.
layers_new(st, name, color, line) ==
    IF HasLayer(st.layers, name)
    THEN [st EXCEPT !.err = Err("DXFTableEntryError", line)]
    ELSE [st EXCEPT !.layers = Append(@, [name |-> name, color |-> color])]

\* Faulty variant: the layer is created without looking it up first.
ensure_layer_unguarded(st, name, color, line) ==
    layers_new(st, name, color, line)

\* `if layer not in doc.layers: doc.layers.new(...)`
ensure_layer(st, name, color, line) ==
    IF ~HasLayer(st.layers, name) THEN layers_new(st, name, color, line)
    ELSE st

\* ------------------------------------------------- a row's cells
\* row.get('Name', row.get('ID', ''))
RowName(columns, row) ==
    IF "Name" \in columns THEN row["Name"]
    ELSE IF "ID" \in columns THEN row["ID"]
    ELSE ""

\* row.get('Remarks', '')
RowRemarks(columns, row) ==
    IF "Remarks" \in columns THEN row["Remarks"] ELSE ""

\* float(row.get('Instrument Ht', 1.6)): the default only when the column
\* is absent; a cell that is no number raises.
InstHtRaises(columns, row) ==
    "Instrument Ht" \in columns /\ ~IsFloat(row["Instrument Ht"])

InstHt(columns, row) ==
    IF "Instrument Ht" \in columns THEN float(row["Instrument Ht"])
    ELSE DefaultInstHt

\* float(row.get('Fix ID', 0))
FixRaises(columns, row) ==
    "Fix ID" \in columns /\ ~IsFloat(row["Fix ID"])

Fix(columns, row) ==
    IF "Fix ID" \in columns THEN float(row["Fix ID"]) ELSE DefaultFix

\* ------------------------------------------------ the three branches
\* Faulty variant: the record is inserted at the front of the list.
append_record_front(all_records, rec) == <<rec>> \o all_records

\* all_records.append(rec)
append_record(all_records, rec) == Append(all_records, rec)

PointLayer == <<"v-points">>
LineLayer(name) == <<"v-lines", name>>
PolygonLayer(name) == <<"v-polygons", name>>

\* Lines 52-63.
process_point(st, coords, name, remarks, inst_ht, columns, row, marker_size, txt_size) ==
    LET c == coords[1]
        p == transform_point(c[1], c[2], c[3], inst_ht)
        x == p[1]
        y == p[2]
        z == p[3]
    IN  IF FixRaises(columns, row)
        THEN [st EXCEPT !.err = Err("ValueError", 54)]
        ELSE
        LET fix == Fix(columns, row)
            color == IF fix = FixedFix THEN "RED" ELSE "YELLOW"
            s1 == ensure_layer(st, PointLayer, "YELLOW", 58)
            m1 == add_point_marker(s1.msp, x, y, z, marker_size,
                                   PointLayer, color)
            m2 == add_text(m1, <<Fmt2(z)>>, x + marker_size, y + marker_size,
                           z, txt_size, PointLayer, color)
            m3 == IF remarks # ""
                  THEN add_text(m2, <<remarks>>, x + marker_size,
                                y - marker_size - txt_size, z, txt_size,
                                PointLayer, color)
                  ELSE m2
        IN  IF s1.err # NoErr THEN s1
            ELSE [s1 EXCEPT
                    !.msp = m3,
                    !.all_records = append_record(@,
                        [Type |-> "Point", Name |-> name, Remarks |-> remarks,
                         X_ft |-> x, Y_ft |-> y, Z_ft |-> z])]

\* `for lon, lat, elev in coords`: every tuple must hold exactly three.
AllTriples(coords) == \A i \in 1..Len(coords) : Len(coords[i]) = 3

Vertices(coords, inst_ht) ==
    [i \in 1..Len(coords) |->
        transform_point(coords[i][1], coords[i][2], coords[i][3], inst_ht)]

XY(vertices) == [i \in 1..Len(vertices) |-> <<vertices[i][1], vertices[i][2]>>]

Polyline(vertices, closed, layer) ==
    [type |-> "LWPOLYLINE", points |-> XY(vertices), closed |-> closed,
     elevation |-> 0, layer |-> layer, color |-> "BYLAYER"]

PointEntity(v, layer) ==
    [type |-> "POINT", location |-> v, layer |-> layer, color |-> "BYLAYER"]

\* Lines 73-75: a 3-D point and a marker per vertex, in order.
RECURSIVE line_vertices(_, _, _, _, _)
line_vertices(msp, vertices, i, marker_size, layer) ==
    IF i > Len(vertices) THEN msp
    ELSE line_vertices(
            add_point_marker(Append(msp, PointEntity(vertices[i], layer)),
                             vertices[i][1], vertices[i][2], vertices[i][3],
                             marker_size, layer, "BLUE"),
            vertices, i + 1, marker_size, layer)

\* Lines 85-86: a marker per vertex, in order.
RECURSIVE polygon_vertices(_, _, _, _, _)
polygon_vertices(msp, vertices, i, marker_size, layer) ==
    IF i > Len(vertices) THEN msp
    ELSE polygon_vertices(
            add_point_marker(msp, vertices[i][1], vertices[i][2],
                             vertices[i][3], marker_size, layer, "GREEN"),
            vertices, i + 1, marker_size, layer)

\* Faulty variant: the middle is taken as (len(vertices) - 1)//2.
mid_index_low(vertices) == (Len(vertices) - 1) \div 2

\* Line 76: the 0-based index len(vertices)//2.
mid_index(vertices) == Len(vertices) \div 2

\* Lines 66-78.
process_line(st, coords, name, remarks, inst_ht, marker_size, txt_size) ==
    IF ~AllTriples(coords) THEN [st EXCEPT !.err = Err("ValueError", 66)]
    ELSE
    LET vertices == Vertices(coords, inst_ht)
        layer == LineLayer(name)
        s1 == ensure_layer(st, layer, "BLUE", 69)
        m1 == Append(s1.msp, Polyline(vertices, FALSE, layer))
        m2 == line_vertices(m1, vertices, 1, marker_size, layer)
        k == mid_index(vertices)
    IN  IF s1.err # NoErr THEN s1
        ELSE IF k >= Len(vertices)
        THEN [s1 EXCEPT !.msp = m2, !.err = Err("IndexError", 76)]
        ELSE
        LET mid == vertices[k + 1]
        IN  [s1 EXCEPT
                !.msp = add_text(m2, <<name>>, mid[1], mid[2], mid[3],
                                 txt_size, layer, "BLUE"),
                !.all_records = append_record(@,
                    [Type |-> "Line", Name |-> name, Remarks |-> remarks,
                     Vertices |-> vertices])]

RECURSIVE SumCoord(_, _, _)
SumCoord(vertices, j, i) ==
    IF i > Len(vertices) THEN 0
    ELSE vertices[i][j] + SumCoord(vertices, j, i + 1)

\* np.mean over one coordinate, to the unit (1e-7 ft).
Mean(vertices, j) == SumCoord(vertices, j, 1) \div Len(vertices)

\* Lines 80-91.
process_polygon(st, coords, name, remarks, inst_ht, marker_size, txt_size) ==
    IF ~AllTriples(coords) THEN [st EXCEPT !.err = Err("ValueError", 80)]
    ELSE
    LET vertices == Vertices(coords, inst_ht)
        layer == PolygonLayer(name)
        s1 == ensure_layer(st, layer, "GREEN", 83)
        m1 == Append(s1.msp, Polyline(vertices, TRUE, layer))
        m2 == polygon_vertices(m1, vertices, 1, marker_size, layer)
    IN  IF s1.err # NoErr THEN s1
        ELSE [s1 EXCEPT
                !.msp = add_text(m2, <<name, remarks>>, Mean(vertices, 1),
                                 Mean(vertices, 2), Mean(vertices, 3),
                                 txt_size, layer, "GREEN"),
                !.all_records = append_record(@,
                    [Type |-> "Polygon", Name |-> name, Remarks |-> remarks,
                     Vertices |-> vertices])]

\* Lines 46-91: one iteration of `for _, row in df.iterrows()`.
process_row(st, columns, row, marker_size, txt_size) ==
    LET name == RowName(columns, row)
        remarks == RowRemarks(columns, row)
    IN  IF InstHtRaises(columns, row)
        THEN [st EXCEPT !.err = Err("ValueError", 48)]
        ELSE
        LET inst_ht == InstHt(columns, row)
            geometry == row["Geometry"]
            parsed == parse_geometry(geometry)
            coords == parsed.coords
        IN  IF parsed.err # NoErr THEN [st EXCEPT !.err = parsed.err]
            ELSE IF geometry.tag = "POINTZ"
            THEN process_point(st, coords, name, remarks, inst_ht, columns,
                               row, marker_size, txt_size)
            ELSE IF geometry.tag = "LINESTRINGZ"
            THEN process_line(st, coords, name, remarks, inst_ht,
                              marker_size, txt_size)
            ELSE IF geometry.tag = "POLYGONZ"
            THEN process_polygon(st, coords, name, remarks, inst_ht,
                                 marker_size, txt_size)
            ELSE st

\* Lines 43-44: `if 'Geometry' not in df.columns: continue`.
HasGeometry(columns) == "Geometry" \in columns

\* Faulty variant: the file is not skipped and row['Geometry'] raises KeyError.
skip_file_keyerror(st) == [st EXCEPT !.err = Err("KeyError", 49)]

skip_file(st) == st

\* Lines 41-91 as a function of the files read: the loop stops at the first
\* exception.
RECURSIVE run_rows(_, _, _, _, _)
run_rows(st, columns, rows, marker_size, txt_size) ==
    IF rows = <<>> \/ st.err # NoErr THEN st
    ELSE run_rows(process_row(st, columns, Head(rows), marker_size, txt_size),
                  columns, Tail(rows), marker_size, txt_size)

RECURSIVE run_files(_, _, _, _)
run_files(st, files, marker_size, txt_size) ==
    IF files = <<>> \/ st.err # NoErr THEN st
    ELSE LET f == Head(files)
         IN  run_files(
                IF ~HasGeometry(f.columns) THEN skip_file(st)
                ELSE run_rows(st, f.columns, f.rows, marker_size, txt_size),
                Tail(files), marker_size, txt_size)

\* ------------------------------------------------------- the inputs
AllCols == {"Geometry", "Name", "ID", "Remarks", "Instrument Ht", "Fix ID"}

HFull == {"Geometry", "Name", "Remarks", "Instrument Ht", "Fix ID"}
HMin == {"Geometry", "ID"}
HNoGeom == {"Name", "Remarks"}
Headers == {HFull, HMin, HNoGeom}

Geom(tag, body) == [tag |-> tag, body |-> body]

V1 == <<"1", "2", "-30">>
V2 == <<"3", "4", "-28">>
V3 == <<"3", "2", "-30">>

GPoint == Geom("POINTZ", <<V1>>)
GPointShort == Geom("POINTZ", <<<<"1", "2">>>>)
GPointBad == Geom("POINTZ", <<<<"1", "abc", "-30">>>>)
GLine1 == Geom("LINESTRINGZ", <<V1>>)
GLine2 == Geom("LINESTRINGZ", <<V1, V2>>)
GLine3 == Geom("LINESTRINGZ", <<V1, V2, V3>>)
GLineShort == Geom("LINESTRINGZ", <<V1, <<"3", "4">>>>)
GLineBad == Geom("LINESTRINGZ", <<<<"1", "abc", "-30">>>>)
GPoly == Geom("POLYGONZ", <<V1, V2, V3>>)
GPolyBad == Geom("POLYGONZ", <<V1, <<"abc">>>>)
GOther == Geom("OTHER", <<V1>>)

Geometries ==
    {GPoint, GPointShort, GPointBad, GLine1, GLine2, GLine3, GLineShort,
     GLineBad, GPoly, GPolyBad, GOther}

Row(name, id, remarks, inst, fix, g) ==
    [c \in AllCols |->
        CASE c = "Geometry" -> g
          [] c = "Name" -> name
          [] c = "ID" -> id
          [] c = "Remarks" -> remarks
          [] c = "Instrument Ht" -> inst
          [] OTHER -> fix]

\* Rows of a file with the full header: every geometry with plain cells,
\* and a point, a line and an unrecognized geometry with one cell varied.
FullRows ==
    {Row("A", "", "", "2.0", "4", g) : g \in Geometries}
    \cup {Row("A", "", "", "2.0", f, GPoint) : f \in {"5", "abc"}}
    \cup {Row("A", "", "r", "2.0", "4", GPoint),
          Row("A", "", "", "abc", "4", GPoint),
          Row("A", "", "", "", "4", GLine2),
          Row("B", "", "", "2.0", "4", GLine2),
          Row("A", "", "", "abc", "4", GOther)}

\* Rows of a file whose header is Geometry,ID.
MinRows == {Row("", "A", "", "", "", g) : g \in {GPoint, GLine2, GPoly, GOther}}

RowsOf(columns) ==
    IF columns = HFull THEN FullRows
    ELSE IF columns = HMin THEN MinRows
    ELSE {}

\* The two sliders, in 1e-7 ft: (0.05, 0.3) and (0.1, 0.2).
Sizes ==
    {[marker_size |-> 500000, txt_size |-> 3000000],
     [marker_size |-> 1000000, txt_size |-> 2000000]}

\* ---------------------------------------------------------- the state
VARIABLES
    dxf_path,        \* st.session_state.dxf_path
    csv_path,        \* st.session_state.csv_path
    offered,         \* the paths the last script run put behind a download button
    disk,            \* the temporary files written so far
    run,             \* number of "Generate DXF" runs started
    pc,              \* "idle", or where the run is: files, rows, save_csv, return, raised
    sizes,           \* marker_size and txt_size of the run
    nfiles,          \* len(uploaded_files)
    uploaded_files,  \* the files read so far, each with the rows iterated so far
    rows_left,       \* rows of the current DataFrame not yet iterated
    doc,             \* doc.layers, msp, all_records and the pending exception
    df_out           \* the rows of the DataFrame written by to_csv

vars ==
    <<dxf_path, csv_path, offered, disk, run, pc, sizes, nfiles,
      uploaded_files, rows_left, doc, df_out>>

NoSizes == [marker_size |-> 0, txt_size |-> 0]

Path(r, kind) == [run |-> r, kind |-> kind]

Init ==
    /\ dxf_path = NoPath
    /\ csv_path = NoPath
    /\ offered = {}
    /\ disk = {}
    /\ run = 0
    /\ pc = "idle"
    /\ sizes = NoSizes
    /\ nfiles = 0
    /\ uploaded_files = <<>>
    /\ rows_left = 0
    /\ doc = new_doc
    /\ df_out = <<>>

\* The locals of process_csvs are gone once it returned or raised.
DropLocals ==
    /\ sizes' = NoSizes
    /\ nfiles' = 0
    /\ uploaded_files' = <<>>
    /\ rows_left' = 0
    /\ doc' = new_doc
    /\ df_out' = <<>>

\* Lines 122-126.
download_section(d, c) == IF d # NoPath /\ c # NoPath THEN {d, c} ELSE {}

\* A script run in which the button is not pressed (or no file is uploaded):
\* lines 104-113 and 122-126.
Rerun ==
    /\ pc = "idle"
    /\ offered' = download_section(dxf_path, csv_path)
    /\ UNCHANGED <<dxf_path, csv_path, disk, run, pc, sizes, nfiles,
                   uploaded_files, rows_left, doc, df_out>>

\* Line 115-117 and 37-39: the button is pressed with n files uploaded.
Generate ==
    /\ pc = "idle"
    /\ run < MaxRuns
    /\ \E n \in 1..MaxFiles, s \in Sizes :
        /\ nfiles' = n
        /\ sizes' = s
    /\ run' = run + 1
    /\ pc' = "files"
    /\ uploaded_files' = <<>>
    /\ rows_left' = 0
    /\ doc' = new_doc
    /\ offered' = {}
    /\ UNCHANGED <<dxf_path, csv_path, disk, df_out>>

\* Lines 41-44: the next file has no Geometry column.
ReadCsvSkip ==
    /\ pc = "files"
    /\ Len(uploaded_files) < nfiles
    /\ \E columns \in Headers :
        /\ ~HasGeometry(columns)
        /\ uploaded_files' =
              Append(uploaded_files, [columns |-> columns, rows |-> <<>>])
    /\ doc' = skip_file(doc)
    /\ UNCHANGED <<dxf_path, csv_path, offered, disk, run, pc, sizes, nfiles,
                   rows_left, df_out>>

\* Lines 41-45: the next file has a Geometry column and k rows.
ReadCsv ==
    /\ pc = "files"
    /\ Len(uploaded_files) < nfiles
    /\ \E columns \in Headers, k \in 0..MaxRows :
        /\ HasGeometry(columns)
        /\ uploaded_files' =
              Append(uploaded_files, [columns |-> columns, rows |-> <<>>])
        /\ rows_left' = k
    /\ pc' = "rows"
    /\ UNCHANGED <<dxf_path, csv_path, offered, disk, run, sizes, nfiles, doc,
                   df_out>>

CurFile == uploaded_files[Len(uploaded_files)]

AddRow(files, row) ==
    [files EXCEPT ![Len(files)].rows = Append(@, row)]

\* Lines 45-91: one row of the current file, without exception.
RowStep ==
    /\ pc = "rows"
    /\ rows_left > 0
    /\ \E row \in RowsOf(CurFile.columns) :
        LET st == process_row(doc, CurFile.columns, row, sizes.marker_size,
                              sizes.txt_size)
        IN  /\ st.err = NoErr
            /\ doc' = st
            /\ uploaded_files' = AddRow(uploaded_files, row)
    /\ rows_left' = rows_left - 1
    /\ UNCHANGED <<dxf_path, csv_path, offered, disk, run, pc, sizes, nfiles,
                   df_out>>

\* Lines 45-91: one row of the current file raises; nothing in process_csvs
\* catches it.
RowRaise ==
    /\ pc = "rows"
    /\ rows_left > 0
    /\ \E row \in RowsOf(CurFile.columns) :
        LET st == process_row(doc, CurFile.columns, row, sizes.marker_size,
                              sizes.txt_size)
        IN  /\ st.err # NoErr
            /\ doc' = st
            /\ uploaded_files' = AddRow(uploaded_files, row)
    /\ rows_left' = rows_left - 1
    /\ pc' = "raised"
    /\ UNCHANGED <<dxf_path, csv_path, offered, disk, run, sizes, nfiles,
                   df_out>>

\* Line 45: the rows of the file are exhausted.
EndFile ==
    /\ pc = "rows"
    /\ rows_left = 0
    /\ pc' = "files"
    /\ UNCHANGED <<dxf_path, csv_path, offered, disk, run, sizes, nfiles,
                   uploaded_files, rows_left, doc, df_out>>

\* Lines 93-94: the drawing is written to a fresh temporary file.
SaveDxf ==
    /\ pc = "files"
    /\ Len(uploaded_files) = nfiles
    /\ disk' = disk \cup {Path(run, "dxf")}
    /\ pc' = "save_csv"
    /\ UNCHANGED <<dxf_path, csv_path, offered, run, sizes, nfiles,
                   uploaded_files, rows_left, doc, df_out>>

\* Lines 93-94: creating or writing the file fails.
SaveDxfFail ==
    /\ pc = "files"
    /\ Len(uploaded_files) = nfiles
    /\ doc' = [doc EXCEPT !.err = Err("OSError", 94)]
    /\ pc' = "raised"
    /\ UNCHANGED <<dxf_path, csv_path, offered, disk, run, sizes, nfiles,
                   uploaded_files, rows_left, df_out>>

\* Lines 95-98: the summary is written to a second temporary file.
SaveCsv ==
    /\ pc = "save_csv"
    /\ df_out' = doc.all_records
    /\ disk' = disk \cup {Path(run, "csv")}
    /\ pc' = "return"
    /\ UNCHANGED <<dxf_path, csv_path, offered, run, sizes, nfiles,
                   uploaded_files, rows_left, doc>>

\* Lines 95-97: writing the summary fails; the drawing's file stays on disk.
SaveCsvFail ==
    /\ pc = "save_csv"
    /\ df_out' = doc.all_records
    /\ doc' = [doc EXCEPT !.err = Err("OSError", 97)]
    /\ pc' = "raised"
    /\ UNCHANGED <<dxf_path, csv_path, offered, disk, run, sizes, nfiles,
                   uploaded_files, rows_left>>

\* The exception leaves process_csvs and stops the script run at line 117:
\* lines 118-126 are not executed, so nothing is assigned and no download
\* button is drawn.
ScriptException ==
    /\ pc = "raised"
    /\ pc' = "idle"
    /\ offered' = {}
    /\ DropLocals
    /\ UNCHANGED <<dxf_path, csv_path, disk, run>>

\* Faulty variant: only the drawing's name is stored in the session.
Finish_dxf_only ==
    /\ pc = "return"
    /\ dxf_path' = Path(run, "dxf")
    /\ csv_path' = csv_path
    /\ offered' = download_section(dxf_path', csv_path')
    /\ pc' = "idle"
    /\ DropLocals
    /\ UNCHANGED <<disk, run>>

\* Lines 117-126: process_csvs returned both names.
Finish ==
    /\ pc = "return"
    /\ dxf_path' = Path(run, "dxf")
    /\ csv_path' = Path(run, "csv")
    /\ offered' = download_section(dxf_path', csv_path')
    /\ pc' = "idle"
    /\ DropLocals
    /\ UNCHANGED <<disk, run>>

Next ==
    \/ Rerun
    \/ Generate
    \/ ReadCsvSkip
    \/ ReadCsv
    \/ RowStep
    \/ RowRaise
    \/ EndFile
    \/ SaveDxf
    \/ SaveDxfFail
    \/ SaveCsv
    \/ SaveCsvFail
    \/ ScriptException
    \/ Finish

Spec == Init /\ [][Next]_vars

\* =================================================================
\* Vocabulary of the properties
\* =================================================================
Recognized == {"POINTZ", "LINESTRINGZ", "POLYGONZ"}

\* process_csvs is in its loop, or left it by an exception of the loop.
InLoop ==
    \/ pc \in {"files", "rows"}
    \/ pc = "raised" /\ doc.err.type # "OSError"

\* process_csvs has just left its loop: by the last file's end (the drawing
\* is written next) or by an exception of the loop.
LoopLeft ==
    \/ pc = "save_csv"
    \/ pc = "raised" /\ doc.err.line < 93

\* process_csvs is running and no exception is pending.
Running == pc \in {"files", "rows", "save_csv", "return"}

\* A step that takes one row of the current file (RowStep or RowRaise).
RowTaken ==
    /\ pc = "rows"
    /\ pc' \in {"rows", "raised"}
    /\ uploaded_files' # uploaded_files

TakenColumns == CurFile.columns

TakenRow ==
    LET f == uploaded_files'[Len(uploaded_files')]
    IN  f.rows[Len(f.rows)]

\* The entities the step appended to the modelspace.
NewEntities == SubSeq(doc'.msp, Len(doc.msp) + 1, Len(doc'.msp))

IsLine(e) == e.type = "LINE"
IsPoint(e) == e.type = "POINT"
IsText(e) == e.type = "TEXT"
IsPolyline(e) == e.type = "LWPOLYLINE"

Last(seq) == seq[Len(seq)]

RemoveAt(seq, i) == SubSeq(seq, 1, i - 1) \o SubSeq(seq, i + 1, Len(seq))

IsPrefix(a, b) == Len(a) <= Len(b) /\ a = SubSeq(b, 1, Len(a))

\* The segment l is a diagonal through (x, y, z) reaching `size` to each side.
Diagonal(l, x, y, z, size) ==
    /\ l.start[3] = z /\ l.end[3] = z
    /\ l.start[1] + l.end[1] = 2 * x
    /\ l.start[2] + l.end[2] = 2 * y
    /\ l.end[1] - l.start[1] \in {2 * size, -2 * size}
    /\ l.end[2] - l.start[2] \in {2 * size, -2 * size}

\* Two diagonals of opposite slope: an X.
Sgn(n) == IF n > 0 THEN 1 ELSE IF n < 0 THEN -1 ELSE 0

Slope(l) == Sgn(l.end[1] - l.start[1]) * Sgn(l.end[2] - l.start[2])

Crossing(a, b) == Slope(a) # 0 /\ Slope(a) = -Slope(b)

\* The segment l is horizontal and (x, y, z) is its middle.
Bisecting(l, x, y, z) ==
    /\ l.start[3] = z /\ l.end[3] = z
    /\ l.start[2] = y /\ l.end[2] = y
    /\ l.start[1] + l.end[1] = 2 * x
    /\ l.start[1] # l.end[1]

\* The geometry has a recognized tag and a non-numeric token or a vertex of
\* fewer than three numbers.
Malformed(g) ==
    /\ g.tag \in Recognized
    /\ \E i \in 1..Len(g.body) : ~AllFloat(g.body[i]) \/ Len(g.body[i]) < 3

WellFormed(g) ==
    /\ g.tag \in Recognized
    /\ \A i \in 1..Len(g.body) : AllFloat(g.body[i]) /\ Len(g.body[i]) = 3

\* The elevations (z) a summary row holds.
RecordZs(rec) ==
    IF rec.Type = "Point" THEN <<rec.Z_ft>>
    ELSE [i \in 1..Len(rec.Vertices) |-> rec.Vertices[i][3]]

\* The z of an elevation cell corrected with instrument height inst_ht.
CorrectedZ(elev, inst_ht) == (float(elev) + GeoidOffset - inst_ht) * FeetPerMetre

\* =================================================================
\* C1.  A record whose Geometry has a recognized tag but malformed numeric
\* content is skipped: the step that takes it leaves the drawing, the layers
\* and the summary as they were, raises nothing, and the loop goes on with
\* the next record.
C1_MalformedRecordSkipped ==
    [][(/\ RowTaken
        /\ Malformed(TakenRow["Geometry"])
        /\ ~InstHtRaises(TakenColumns, TakenRow))
       => (pc' = "rows" /\ doc' = doc)]_vars

\* C2.  Whenever the 'Instrument Ht' column is absent or the cell is not a
\* number, the record does not fail on it and the elevation of what it adds
\* to the summary is corrected with 1.6.
C2_InstHtDefaultsTo16 ==
    [][(/\ RowTaken
        /\ \/ "Instrument Ht" \notin TakenColumns
           \/ ~IsFloat(TakenRow["Instrument Ht"]))
       => /\ doc'.err # Err("ValueError", 48)
          /\ doc'.all_records # doc.all_records
                => LET g == TakenRow["Geometry"]
                   IN  RecordZs(Last(doc'.all_records))
                         = [i \in 1..Len(g.body) |->
                               CorrectedZ(g.body[i][3], DefaultInstHt)]]_vars

\* C3.  For every successfully processed Point record the marker is two
\* crossing diagonals centred at (x, y, z) with half-width marker_size; with
\* fix-quality code 5 there is exactly one more segment, horizontal and
\* bisecting, and with any other code there is none.
C3_PointMarkerWithBar ==
    [][(/\ RowTaken
        /\ TakenRow["Geometry"].tag = "POINTZ"
        /\ pc' = "rows")
       => LET rec == Last(doc'.all_records)
              x == rec.X_ft
              y == rec.Y_ft
              z == rec.Z_ft
              lines == SelectSeq(NewEntities, IsLine)
              five == Fix(TakenColumns, TakenRow) = 500
          IN  /\ Len(lines) = IF five THEN 3 ELSE 2
              /\ Diagonal(lines[1], x, y, z, sizes.marker_size)
              /\ Diagonal(lines[2], x, y, z, sizes.marker_size)
              /\ Crossing(lines[1], lines[2])
              /\ five => Bisecting(lines[3], x, y, z)]_vars

\* C4.  A record whose Geometry starts with none of the three tags parses to
\* an empty coordinate list; the step that takes it adds no entity, no layer
\* and no summary row, raises nothing, and the loop goes on.
C4_UnrecognizedSkipped ==
    [][(/\ RowTaken
        /\ TakenRow["Geometry"].tag \notin Recognized)
       => /\ parse_geometry(TakenRow["Geometry"]) = [err |-> NoErr, coords |-> <<>>]
          /\ pc' = "rows"
          /\ doc' = doc]_vars

\* C5.  A file without a Geometry column contributes nothing, wherever it
\* stands: layers, entities, summary rows and the pending exception are those
\* of the same sequence of files with that file removed.
C5_NoGeometryFileIgnored ==
    (InLoop \/ Running) =>
        \A i \in 1..Len(uploaded_files) :
            ~HasGeometry(uploaded_files[i].columns) =>
                doc = run_files(new_doc, RemoveAt(uploaded_files, i),
                                sizes.marker_size, sizes.txt_size)

C5_Witness ==
    /\ pc = "return"
    /\ Len(uploaded_files) = 2
    /\ ~HasGeometry(uploaded_files[1].columns)
    /\ Len(uploaded_files[2].rows) = 2
    /\ Len(doc.all_records) = 2

\* C6.  The two download handles are both unset or both set to the two
\* artifacts of one run that wrote both files and returned; a run that
\* raises assigns no handle, and the script run in which it raises offers no
\* download.
C6_Handles ==
    /\ (dxf_path = NoPath) <=> (csv_path = NoPath)
    /\ dxf_path # NoPath =>
          /\ dxf_path.kind = "dxf"
          /\ csv_path.kind = "csv"
          /\ dxf_path.run = csv_path.run
          /\ {dxf_path, csv_path} \subseteq disk
          /\ dxf_path.run = run => pc = "idle"
    /\ offered \in {{}, {dxf_path, csv_path}}
    /\ offered # {} => dxf_path # NoPath

C6_FailedRunExposesNothing ==
    /\ pc = "raised" => /\ offered' = {}
                        /\ dxf_path' = dxf_path
                        /\ csv_path' = csv_path
    /\ <<dxf_path, csv_path>>' # <<dxf_path, csv_path>> => pc = "return"

TypeName(tag) ==
    CASE tag = "POINTZ" -> "Point"
      [] tag = "LINESTRINGZ" -> "Line"
      [] tag = "POLYGONZ" -> "Polygon"

RECURSIVE ExpectedOfRows(_, _)
ExpectedOfRows(columns, rows) ==
    IF rows = <<>> THEN <<>>
    ELSE LET row == Head(rows)
             tag == row["Geometry"].tag
         IN  (IF tag \in Recognized
              THEN <<[Type |-> TypeName(tag), Name |-> RowName(columns, row),
                      Remarks |-> RowRemarks(columns, row)]>>
              ELSE <<>>)
             \o ExpectedOfRows(columns, Tail(rows))

RECURSIVE ExpectedOfFiles(_)
ExpectedOfFiles(files) ==
    IF files = <<>> THEN <<>>
    ELSE LET f == Head(files)
         IN  (IF "Geometry" \in f.columns THEN ExpectedOfRows(f.columns, f.rows)
              ELSE <<>>)
             \o ExpectedOfFiles(Tail(files))

Keys(records) ==
    [i \in 1..Len(records) |->
        [Type |-> records[i].Type, Name |-> records[i].Name,
         Remarks |-> records[i].Remarks]]

\* The files read so far without the row that raised.
DropLastRow(files) ==
    [files EXCEPT ![Len(files)].rows = SubSeq(@, 1, Len(@) - 1)]

\* C7.  The summary holds exactly one row per processed record and none for
\* a skipped record or file, in processing order (files in upload order,
\* rows in read order); the table written is that list, and a row once
\* appended is never reordered or removed.
C7_OneRowPerRecord ==
    /\ Running => Keys(doc.all_records) = ExpectedOfFiles(uploaded_files)
    /\ (pc = "raised" /\ doc.err.type # "OSError") =>
          Keys(doc.all_records) = ExpectedOfFiles(DropLastRow(uploaded_files))
    /\ pc = "return" => df_out = doc.all_records

C7_AppendOnly ==
    (pc # "idle" /\ pc' # "idle") => IsPrefix(doc.all_records, doc'.all_records)

C7_SummaryInOrder == [](C7_OneRowPerRecord) /\ [][C7_AppendOnly]_vars

\* A line and a skipped record in the first file, a point in the second.
C7_Witness ==
    /\ pc = "return"
    /\ Len(uploaded_files) = 2
    /\ Len(uploaded_files[1].rows) = 2
    /\ uploaded_files[1].rows[2]["Geometry"].tag = "OTHER"
    /\ Len(df_out) = 2
    /\ df_out[1].Type = "Line"
    /\ df_out[2].Type = "Point"

\* The layer a record of this tag and name is drawn on.
NeededLayer(tag, name) ==
    CASE tag = "POINTZ" -> <<"v-points">>
      [] tag = "LINESTRINGZ" -> <<"v-lines", name>>
      [] tag = "POLYGONZ" -> <<"v-polygons", name>>

NoDuplicateLayer(layers) ==
    \A i, j \in 1..Len(layers) : layers[i].name = layers[j].name => i = j

\* C8.  No layer name is in the registry twice and creating a layer never
\* fails; every entity lies on a layer of the registry; a record whose layer
\* exists leaves the registry as it is, and a processed record whose layer
\* did not exist adds exactly that layer.
C8_Registry ==
    /\ NoDuplicateLayer(doc.layers)
    /\ doc.err.type # "DXFTableEntryError"
    /\ \A i \in 1..Len(doc.msp) : HasLayer(doc.layers, doc.msp[i].layer)

C8_Reuse ==
    (RowTaken /\ TakenRow["Geometry"].tag \in Recognized) =>
        LET need == NeededLayer(TakenRow["Geometry"].tag,
                                RowName(TakenColumns, TakenRow))
        IN  /\ HasLayer(doc.layers, need) => doc'.layers = doc.layers
            /\ doc'.all_records # doc.all_records =>
                  /\ HasLayer(doc'.layers, need)
                  /\ \A i \in 1..Len(NewEntities) : NewEntities[i].layer = need
                  /\ ~HasLayer(doc.layers, need) =>
                        /\ Len(doc'.layers) = Len(doc.layers) + 1
                        /\ Last(doc'.layers).name = need

C8_LayerCreatedOnce == [](C8_Registry) /\ [][C8_Reuse]_vars

\* Two points and two lines of one name were drawn: one layer each.
C8_Witness ==
    /\ pc = "return"
    /\ Len(doc.all_records) = 4
    /\ doc.all_records[1].Type = "Point"
    /\ doc.all_records[2].Type = "Line"
    /\ doc.all_records[3].Type = "Point"
    /\ doc.all_records[4].Type = "Line"
    /\ doc.all_records[2].Name = doc.all_records[4].Name
    /\ Len(doc.layers) = 4

\* C9.  With the same files and any other marker_size and txt_size the loop
\* of process_csvs ends with the same summary rows in the same order, the same layers, the same
\* exception if any, and the same entities by type and layer in the same
\* order.
C9_SizesOnlyChangeGeometry ==
    LoopLeft =>
        \A s \in Sizes :
            LET o == run_files(new_doc, uploaded_files, s.marker_size,
                               s.txt_size)
            IN  /\ o.all_records = doc.all_records
                /\ o.layers = doc.layers
                /\ o.err = doc.err
                /\ Len(o.msp) = Len(doc.msp)
                /\ \A i \in 1..Len(doc.msp) :
                      /\ o.msp[i].type = doc.msp[i].type
                      /\ o.msp[i].layer = doc.msp[i].layer

\* A run with a point with remarks and a line, whose drawing differs from
\* the drawing under the other sizes.
C9_Witness ==
    /\ pc = "return"
    /\ Len(doc.all_records) >= 2
    /\ \E i \in 1..Len(doc.all_records) :
          doc.all_records[i].Type = "Point" /\ doc.all_records[i].Remarks # ""
    /\ \E i \in 1..Len(doc.all_records) : doc.all_records[i].Type = "Line"
    /\ \E s \in Sizes :
          run_files(new_doc, uploaded_files, s.marker_size, s.txt_size).msp
              # doc.msp

\* C10.  A Line record that reaches the parser and parses to n >= 1 triples
\* is drawn as one open polyline of the n projected vertices in order, one
\* 3-D point and one X marker per vertex, and one label at the vertex of
\* 0-based index n div 2, which is an index of the list.
C10_LineEntities ==
    [][(/\ RowTaken
        /\ TakenRow["Geometry"].tag = "LINESTRINGZ"
        /\ ~InstHtRaises(TakenColumns, TakenRow)
        /\ WellFormed(TakenRow["Geometry"]))
       => LET body == TakenRow["Geometry"].body
              n == Len(body)
              inst_ht == InstHt(TakenColumns, TakenRow)
              v == [i \in 1..n |->
                      transform_point(float(body[i][1]), float(body[i][2]),
                                      float(body[i][3]), inst_ht)]
              polys == SelectSeq(NewEntities, IsPolyline)
              points == SelectSeq(NewEntities, IsPoint)
              lines == SelectSeq(NewEntities, IsLine)
              texts == SelectSeq(NewEntities, IsText)
          IN  /\ pc' = "rows"
              /\ n >= 1
              /\ Len(polys) = 1
              /\ ~polys[1].closed
              /\ polys[1].points = [i \in 1..n |-> <<v[i][1], v[i][2]>>]
              /\ Len(points) = n
              /\ \A i \in 1..n : points[i].location = v[i]
              /\ Len(lines) = 2 * n
              /\ \A i \in 1..n :
                    /\ Diagonal(lines[2 * i - 1], v[i][1], v[i][2], v[i][3],
                                sizes.marker_size)
                    /\ Diagonal(lines[2 * i], v[i][1], v[i][2], v[i][3],
                                sizes.marker_size)
                    /\ Crossing(lines[2 * i - 1], lines[2 * i])
              /\ Len(texts) = 1
              /\ (n \div 2) + 1 \in 1..n
              /\ texts[1].insert = v[(n \div 2) + 1]
              /\ Len(NewEntities) = 3 * n + 2]_vars

\* A two-vertex line was drawn: its label is at the second vertex.
C10_Witness ==
    /\ pc = "rows"
    /\ doc.all_records # <<>>
    /\ Last(doc.all_records).Type = "Line"
    /\ Len(Last(doc.all_records).Vertices) = 2
    /\ Last(doc.msp).type = "TEXT"
    /\ Last(doc.msp).insert = Last(doc.all_records).Vertices[2]
    /\ Last(doc.msp).insert # Last(doc.all_records).Vertices[1]

====
